---- MODULE Spec2Model ----
(***************************************************************************)
(* Model of lk_checkin.py: one invocation of do_checkin (credential        *)
(* resolution, liveness check, task list, article discovery, the seven     *)
(* task steps, cleanup and the final report) under Spec, main around it    *)
(* under MainSpec, one call of LKClient._post under PostSpec, the decoding *)
(* of one response under CodecSpec, consecutive invocations under          *)
(* RunsSpec, a run followed to its end under FairSpec, and two invocations *)
(* writing the cache file at the same time under RaceSpec.                 *)
(*                                                                         *)
(* A security_key string is modelled by the tuple of its ":"-separated     *)
(* parts ("E:1" is <<"E","1">>, "" is <<"">>), so that split(":") and the  *)
(* int() conversion of get_user_info are computed, not assumed.  Python's  *)
(* None is the empty tuple; an Optional result is a tuple of length <= 1.  *)
(***************************************************************************)
EXTENDS Integers, Sequences, FiniteSets, TLC

VARIABLES
    config,        \* lk section of config.yaml: security_key, username, password
    cacheFile,     \* content of .lk_cache.json
    remote,        \* what the site holds for this account: task items, articles
    pc,            \* position of the run inside do_checkin
    security_key,  \* local security_key of do_checkin
    keySource,     \* which branch of lines 591-608 produced the first credential
    client,        \* the LKClient object (security_key, uid, nickname, coin, exp)
    infoFrom,      \* which get_user_info call last assigned client.coin/exp
    task_data,     \* local task_data: what get_task_list returned last
    task_status,   \* local task_status: task id -> status of the first list fetch
    page,          \* find_valid_article: the page to fetch next
    all_articles,  \* find_valid_article: the candidates collected, then shuffled
    probe,         \* find_valid_article: index of the candidate to probe next
    aid,           \* article id returned by find_valid_article
    collected,     \* local collected of the favourite step
    main_status,   \* local main_status of the aggregate step
    task_results,  \* local task_results, a sequence of <<id, coin, exp, code>>
    ret,           \* value returned by do_checkin
    trace,         \* the calls issued so far, in order
    configFile,    \* content of config.yaml as main loads it
    exit_status,   \* exit status of the process, None while it runs
    post,          \* one call of LKClient._post: its arguments, loop and result
    codec,         \* one response body on the wire and what the decoder made of it
    history,       \* what the earlier invocations of the program left behind
    procs          \* two invocations writing the cache file at the same time

vars == <<config, cacheFile, remote, pc, security_key, keySource, client, infoFrom,
          task_data, task_status, page, all_articles, probe, aid, collected,
          main_status, task_results, ret, trace, configFile, exit_status, post,
          codec, history, procs>>

\* what the steps of do_checkin leave alone
outside == <<configFile, exit_status, post, codec, history, procs>>

-----------------------------------------------------------------------------
(* Python values *)

None == <<>>
Some(v) == <<v>>
EmptyStr == <<"">>

\* truthiness of an Optional[str] key: None and "" are falsy
KeyTruthy(k) == k # None /\ k # EmptyStr

\* the strings int() accepts; on any other string it raises ValueError
DigitStrings == {"1", "2"}

-----------------------------------------------------------------------------
(* Bounded inputs *)

Identities == {"u1", "u2"}

ConfigKeys == {EmptyStr, <<"E", "1">>, <<"E">>, <<"E", "x">>}
Usernames == {"", "u1"}
Passwords == {"", "pw"}

Configs == [security_key : ConfigKeys, username : Usernames, password : Passwords]

\* one entry of the cache mapping
AbsentEntry == [kind |-> "absent"]
ScalarEntry == [kind |-> "scalar"]
DictEntry(k, t, x) == [kind |-> "dict", security_key |-> k, cached_at |-> t, extra |-> x]

OldTime == "t0"
Now == "t1"

EntriesU1 == {AbsentEntry, ScalarEntry,
              DictEntry(<<"C", "1">>, OldTime, TRUE),
              DictEntry(EmptyStr, OldTime, FALSE),
              DictEntry(None, OldTime, FALSE)}
EntriesU2 == {AbsentEntry, DictEntry(<<"D", "2">>, OldTime, FALSE)}

MapFile(m) == [kind |-> "map", map |-> m]
MissingFile == [kind |-> "missing"]
UnparsableFile == [kind |-> "unparsable"]
NonMapFile == [kind |-> "nonmap"]

CacheFiles ==
    {MissingFile, UnparsableFile, NonMapFile}
    \cup {MapFile([i \in Identities |-> IF i = "u1" THEN e1 ELSE e2]) :
            e1 \in EntriesU1, e2 \in EntriesU2}

-----------------------------------------------------------------------------
(* Transport: LKClient._post *)

Retry == 3

NetErr == [kind |-> "neterr"]
Undecodable == [kind |-> "undecodable"]
Received(b) == [kind |-> "body", body |-> b]

\* number of HTTP attempts _post makes on the attempt outcomes outs
RECURSIVE PostAttempts(_, _, _)
PostAttempts(outs, attempt, retry) ==
    IF attempt >= retry THEN attempt
    ELSE IF outs[attempt + 1].kind = "body" THEN attempt + 1
    ELSE IF attempt = retry - 1 THEN attempt + 1
    ELSE PostAttempts(outs, attempt + 1, retry)

\* value returned by _post on the attempt outcomes outs
RECURSIVE PostFrom(_, _, _)
PostFrom(outs, attempt, retry) ==
    IF attempt >= retry THEN None
    ELSE IF outs[attempt + 1].kind = "body" THEN Some(outs[attempt + 1].body)
    ELSE IF attempt = retry - 1 THEN None
    ELSE PostFrom(outs, attempt + 1, retry)

_post(outs, retry) == PostFrom(outs, 0, retry)

AttemptOutcomes(bodies) == {NetErr, Undecodable} \cup {Received(b) : b \in bodies}

\* everything _post can return when the site answers with bodies
PostReturns(bodies) ==
    {_post(outs, Retry) : outs \in [1..Retry -> AttemptOutcomes(bodies)]}

\* "not result or result.get('code') != 0"
Failed(result) == result = None \/ result[1].code # 0

-----------------------------------------------------------------------------
(* Session cache: load_cache, save_cache, get_cached_security_key,
   cache_security_key *)

NonDict == [kind |-> "nondict"]
Dict(m) == [kind |-> "dict", map |-> m]
EmptyDict == Dict([i \in Identities |-> AbsentEntry])

load_cache_forgetful(file) == EmptyDict

\* value returned by load_cache: {} for a missing or unparsable file, else
\* whatever json.load produced
load_cache(file) ==
    CASE file.kind = "missing" -> EmptyDict
      [] file.kind = "unparsable" -> EmptyDict
      [] file.kind = "nonmap" -> NonDict
      [] OTHER -> Dict(file.map)

get_cached_wrong_field(file, username) ==
    [raised |-> load_cache(file).kind = "nondict", key |-> None]

\* cache.get(username, {}).get("security_key"); .get on a non-dict raises
get_cached_security_key(file, username) ==
    LET cache == load_cache(file) IN
    IF cache.kind = "nondict" THEN [raised |-> TRUE, key |-> None]
    ELSE IF username \notin DOMAIN cache.map THEN [raised |-> FALSE, key |-> None]
    ELSE LET e == cache.map[username] IN
         CASE e.kind = "absent" -> [raised |-> FALSE, key |-> None]
           [] e.kind = "scalar" -> [raised |-> TRUE, key |-> None]
           [] OTHER -> [raised |-> FALSE, key |-> e.security_key]

save_cache_dropped(file, cache, writeOk) == file

\* json.dump of the whole mapping; a failed write leaves the file as it was
save_cache(file, cache, writeOk) ==
    IF writeOk THEN MapFile(cache.map) ELSE file

cache_entry_merged(file, username, key, writeOk) ==
    LET cache == load_cache(file) IN
    IF cache.kind = "nondict" THEN [raised |-> TRUE, file |-> file]
    ELSE [raised |-> FALSE,
          file |-> save_cache(file,
                      Dict([i \in DOMAIN cache.map \cup {username} |->
                              IF i # username THEN cache.map[i]
                              ELSE IF i \in DOMAIN cache.map /\ cache.map[i].kind = "dict"
                              THEN [cache.map[i] EXCEPT !.security_key = key,
                                                        !.cached_at = Now]
                              ELSE DictEntry(key, Now, FALSE)]),
                      writeOk)]

\* cache[username] = {security_key, cached_at}; item assignment on a non-dict raises
cache_security_key(file, username, key, writeOk) ==
    LET cache == load_cache(file) IN
    IF cache.kind = "nondict" THEN [raised |-> TRUE, file |-> file]
    ELSE [raised |-> FALSE,
          file |-> save_cache(file,
                      Dict([i \in DOMAIN cache.map \cup {username} |->
                              IF i = username THEN DictEntry(key, Now, FALSE)
                              ELSE cache.map[i]]),
                      writeOk)]

-----------------------------------------------------------------------------
(* login *)

NoData == [missing |-> TRUE]

LoginKeys == {<<"L", "1">>}

LoginBodies ==
    {[code |-> 1, data |-> NoData], [code |-> 0, data |-> NoData],
     [code |-> 0, data |-> [uid |-> 1]]}
    \cup {[code |-> 0, data |-> [uid |-> 1, security_key |-> k]] : k \in LoginKeys}

LoginOutcomes == AttemptOutcomes(LoginBodies)

\* one POST, no retry; every exception is caught and gives None
login(out) ==
    IF out.kind # "body" THEN None
    ELSE IF out.body.code # 0 THEN None
    ELSE IF out.body.data = NoData THEN None
    ELSE IF "security_key" \in DOMAIN out.body.data THEN out.body.data.security_key
    ELSE EmptyStr

-----------------------------------------------------------------------------
(* LKClient *)

LKClient(key) ==
    [security_key |-> key, uid |-> 0, nickname |-> "", coin |-> 0, exp |-> 0]

NoClient == LKClient(None)

\* the balances the site may report run from just under the threshold of the
\* coin task up to MaxCoin
CoinThreshold == 10
MaxCoin == 10
Coins == (CoinThreshold - 1)..MaxCoin

UserInfoData ==
    {[uid |-> 1, nickname |-> "nick", coin |-> c, exp |-> c - CoinThreshold + 2] :
        c \in Coins}

UserInfoBodies ==
    {[code |-> 1, data |-> NoData], [code |-> 0, data |-> NoData]}
    \cup {[code |-> 0, data |-> d] : d \in UserInfoData}

UserInfoReturns == PostReturns(UserInfoBodies)

\* get_user_info returns False before any request when the key has no ":" part
HasUidPart(key) == Len(key) >= 2

\* get_user_info: [raised, ok, posted, client]
get_user_info(c, result) ==
    IF ~HasUidPart(c.security_key)
    THEN [raised |-> FALSE, ok |-> FALSE, posted |-> FALSE, client |-> c]
    ELSE IF c.security_key[2] \notin DigitStrings
    THEN [raised |-> TRUE, ok |-> FALSE, posted |-> FALSE, client |-> c]
    ELSE IF Failed(result)
    THEN [raised |-> FALSE, ok |-> FALSE, posted |-> TRUE, client |-> c]
    ELSE IF result[1].data = NoData
    THEN [raised |-> TRUE, ok |-> FALSE, posted |-> TRUE, client |-> c]
    ELSE [raised |-> FALSE, ok |-> TRUE, posted |-> TRUE,
          client |-> [c EXCEPT !.uid = result[1].data.uid,
                               !.nickname = result[1].data.nickname,
                               !.coin = result[1].data.coin,
                               !.exp = result[1].data.exp]]

-----------------------------------------------------------------------------
(* What the site holds: task items, reward, article catalogue *)

TaskIds == {8, 1, 2, 3, 5, 6, 7}
TaskOrder == <<8, 1, 2, 3, 5, 6, 7>>

\* position of a task id in TaskOrder, from 0
Pos(t) == CHOOSE i \in 0..6 : TaskOrder[i + 1] = t

\* status 0 incomplete, 1 claimable, 2 claimed
Rotated(k) == [t \in TaskIds |-> (Pos(t) + k) % 3]
Uniform(s) == [t \in TaskIds |-> s]
\* the list of the end-to-end scenario: task 8 is not listed
Scenario == [t \in {1, 2, 3, 5, 6, 7} |->
               CASE t = 2 -> 2 [] t = 3 -> 1 [] OTHER -> 0]

ItemVectors == {Rotated(0), Rotated(1), Rotated(2), Uniform(0), Uniform(1),
                Uniform(2), Scenario}
BaseItems == Uniform(2)

\* what a granted claim carries: coin and exp, or no data field at all
Rewards == {[coin |-> 1, exp |-> 2], NoData}
BaseReward == [coin |-> 1, exp |-> 2]

MaxPages == 5

Flags(l, f, c) == [already_like |-> l, already_fav |-> f, already_coin |-> c]

\* one eligible article on the first page
BaseCatalogue ==
    [pages |-> [p \in 1..MaxPages |-> IF p = 1 THEN <<1>> ELSE <<>>],
     flags |-> [a \in {1} |-> Flags(0, 0, 0)]]

\* two pages of candidates; article 1 is liked already, article 3 reports no
\* already_coin flag at all
MixedCatalogue ==
    [pages |-> [p \in 1..MaxPages |->
                  CASE p = 1 -> <<1, 2>> [] p = 3 -> <<3>> [] OTHER -> <<>>],
     flags |-> [a \in {1, 2, 3} |->
                  CASE a = 1 -> Flags(1, 0, 0)
                    [] a = 2 -> Flags(0, 0, 0)
                    [] OTHER -> [already_like |-> 0, already_fav |-> 0]]]

\* nothing eligible
UsedCatalogue ==
    [pages |-> [p \in 1..MaxPages |-> IF p = 2 THEN <<1, 2>> ELSE <<>>],
     flags |-> [a \in {1, 2} |-> IF a = 1 THEN Flags(0, 1, 0) ELSE Flags(0, 0, 1)]]

Catalogues == {BaseCatalogue, MixedCatalogue, UsedCatalogue}

Remote(items, reward, cat) == [items |-> items, reward |-> reward, catalogue |-> cat]

Remotes == {Remote(i, r, c) : i \in ItemVectors, r \in Rewards, c \in Catalogues}
BaseRemote == Remote(BaseItems, BaseReward, BaseCatalogue)

BaseConfig == [security_key |-> <<"E", "1">>, username |-> "", password |-> ""]
BaseCache == MissingFile

World(c, f, r) == [config |-> c, cacheFile |-> f, remote |-> r]

\* every configuration and cache against the base site, every task list and
\* reward against the base configuration, every catalogue likewise
Worlds ==
    {World(c, f, BaseRemote) : c \in Configs, f \in CacheFiles}
    \cup {World(BaseConfig, BaseCache, Remote(i, r, BaseCatalogue)) :
            i \in ItemVectors, r \in Rewards}
    \cup {World(BaseConfig, BaseCache, Remote(BaseItems, BaseReward, c)) :
            c \in Catalogues}

-----------------------------------------------------------------------------
(* LKClient: the typed operations *)

\* bodies of the endpoints whose caller reads only the code
SimpleBodies == {[code |-> 0, data |-> NoData], [code |-> 1, data |-> NoData]}
SimpleReturns == PostReturns(SimpleBodies)

\* "success = result and result.get('code') == 0"
Succeeded(result) == result # None /\ result[1].code = 0

NullData == [null |-> TRUE]

TaskListBodies ==
    {[code |-> 1, data |-> NoData], [code |-> 0, data |-> NoData]}
    \cup {[code |-> 0, data |-> [items |-> i, status |-> st]] :
            i \in ItemVectors, st \in 0..2}
    \cup {[code |-> 0, data |-> [items |-> i]] : i \in ItemVectors}
TaskListReturns == PostReturns(TaskListBodies)

\* the site lists its own items; the overall status is whatever it is by then
FromSite(result, items) ==
    Failed(result) \/ result[1].data = NoData \/ result[1].data.items = items

\* get_task_list: [raised, data], data an Optional
get_task_list(result) ==
    IF Failed(result) THEN [raised |-> FALSE, data |-> None]
    ELSE IF result[1].data = NoData THEN [raised |-> TRUE, data |-> None]
    ELSE [raised |-> FALSE, data |-> Some(result[1].data)]

\* task_status.get(t, 2)
StatusOf(statuses, t) == IF t \in DOMAIN statuses THEN statuses[t] ELSE 2

\* task_data.get("status", 2) if task_data else 2
MainStatus(data) ==
    IF data = None THEN 2
    ELSE IF "status" \in DOMAIN data[1] THEN data[1].status ELSE 2

ClaimBodies ==
    {[code |-> 1, data |-> NoData], [code |-> 0, data |-> NullData]}
    \cup {[code |-> 0, data |-> r] : r \in Rewards}
ClaimReturns == PostReturns(ClaimBodies)

\* a claim the site accepts carries the site's reward
Grants(result, reward) ==
    Failed(result) \/ result[1].data = NullData \/ result[1].data = reward

\* claim_reward: [raised, reward], reward an Optional {coin, exp};
\* result.get("data", {}) and the .get defaults give 0 for what is absent,
\* a data that is no dict raises
claim_reward(result) ==
    IF ~Succeeded(result) THEN [raised |-> FALSE, reward |-> None]
    ELSE IF result[1].data = NullData THEN [raised |-> TRUE, reward |-> None]
    ELSE IF result[1].data = NoData
    THEN [raised |-> FALSE, reward |-> Some([coin |-> 0, exp |-> 0])]
    ELSE [raised |-> FALSE,
          reward |-> Some([coin |-> result[1].data.coin, exp |-> result[1].data.exp])]

ArticleLists == UNION {{c.pages[p] : p \in 1..MaxPages} : c \in Catalogues}

ArticleListBodies ==
    {[code |-> 1, data |-> NoData], [code |-> 0, data |-> NoData]}
    \cup {[code |-> 0, data |-> [list |-> l]] : l \in ArticleLists}
ArticleListReturns == PostReturns(ArticleListBodies)

\* the site serves the page of its catalogue
ServesPage(result, list) ==
    Failed(result) \/ result[1].data = NoData \/ result[1].data.list = list

\* get_article_list: [raised, articles], articles an Optional list of aids
get_article_list(result) ==
    IF Failed(result) THEN [raised |-> FALSE, articles |-> None]
    ELSE IF result[1].data = NoData THEN [raised |-> TRUE, articles |-> None]
    ELSE [raised |-> FALSE, articles |-> Some(result[1].data.list)]

ArticleFlags == UNION {{c.flags[a] : a \in DOMAIN c.flags} : c \in Catalogues}

DetailBodies ==
    {[code |-> 1, data |-> NoData], [code |-> 0, data |-> NoData]}
    \cup {[code |-> 0, data |-> f] : f \in ArticleFlags}
DetailReturns == PostReturns(DetailBodies)

ServesDetail(result, flags) ==
    Failed(result) \/ result[1].data = NoData \/ result[1].data = flags

\* get_article_detail: [raised, detail], detail an Optional
get_article_detail(result) ==
    IF Failed(result) THEN [raised |-> FALSE, detail |-> None]
    ELSE IF result[1].data = NoData THEN [raised |-> TRUE, detail |-> None]
    ELSE [raised |-> FALSE, detail |-> Some(result[1].data)]

FlagDefaultZero(detail, name) == IF name \in DOMAIN detail THEN detail[name] ELSE 0

\* detail.get(flag, 1)
Flag(detail, name) == IF name \in DOMAIN detail THEN detail[name] ELSE 1

\* line 396: not liked, not favourited, not coined
Usable(detail) ==
    /\ Flag(detail, "already_like") = 0
    /\ Flag(detail, "already_fav") = 0
    /\ Flag(detail, "already_coin") = 0

\* the orders random.shuffle can leave a list in
Shuffles(list) ==
    {[i \in 1..Len(list) |-> list[f[i]]] :
        f \in {g \in [1..Len(list) -> 1..Len(list)] :
                 \A i, j \in 1..Len(list) : i # j => g[i] # g[j]}}

-----------------------------------------------------------------------------
(* do_checkin: bookkeeping *)

\* the number of calls of op so far
Count(op) == Cardinality({i \in DOMAIN trace : trace[i].op = op})

\* a call in the trace: the operation, its task or article or page, its outcome
Ev(op) == [op |-> op, arg |-> 0, res |-> ""]
EvT(op, t) == [op |-> op, arg |-> t, res |-> ""]
EvR(op, t, res) == [op |-> op, arg |-> t, res |-> res]

InfoRes(r) == IF r.raised THEN "raise" ELSE IF r.ok THEN "ok" ELSE "fail"
ClaimRes(claim) ==
    IF claim.raised THEN "raise" ELSE IF claim.reward # None THEN "ok" ELSE "fail"
LoginRes(key) == IF KeyTruthy(key) THEN "ok" ELSE "fail"

\* a save_cache call in the trace: whether the file was written
SaveEv(writeOk) == EvR("save_cache", 0, IF writeOk THEN "ok" ELSE "fail")

\* a get_article_detail call in the trace: what find_valid_article made of it
ProbeRes(r) ==
    IF r.raised THEN "raise" ELSE IF r.detail = None THEN "fail"
    ELSE IF Usable(r.detail[1]) THEN "usable" ELSE "unusable"

\* the get_task_list call of the aggregate step in the trace: the overall
\* status it gives, how it ended
ListEv(r) ==
    EvR("get_task_list", MainStatus(r.data),
        IF r.raised THEN "raise" ELSE IF r.data = None THEN "fail" ELSE "ok")

NoReturn == [success |-> FALSE, reason |-> "", nickname |-> ""]

ReturnNoAuth(nickname, reason) ==
    /\ pc' = "returned"
    /\ ret' = [success |-> FALSE, reason |-> "no_auth_config", nickname |-> nickname]

ReturnNever(nickname, reason) ==
    /\ pc' = pc
    /\ ret' = ret

\* "return False, build_failure_message(nickname, reason)"
ReturnFailure(nickname, reason) ==
    /\ pc' = "returned"
    /\ ret' = [success |-> FALSE, reason |-> reason, nickname |-> nickname]

\* an exception leaves do_checkin
Raise ==
    /\ pc' = "raised"
    /\ ret' = ret

HasLoginNoPassword == config.username # ""

\* "username and password"
HasLogin == config.username # "" /\ config.password # ""

KeepClient(old, key) == old

\* line 621: the client is replaced by one holding the fresh key
ClientAfterReLogin(old, key) == LKClient(key)

-----------------------------------------------------------------------------
(* do_checkin: authentication, lines 581-627 *)

\* lines 591-598 and 606-608: explicit key, else cached key, else login
ResolveCredential ==
    /\ pc = "resolve"
    /\ UNCHANGED outside
    /\ UNCHANGED <<config, cacheFile, remote, client, infoFrom, task_data, task_status,
                   page, all_articles, probe, aid, collected, main_status,
                   task_results>>
    /\ IF KeyTruthy(security_key)
       THEN /\ keySource' = "config"
            /\ pc' = "liveness"
            /\ UNCHANGED <<security_key, ret, trace>>
       ELSE IF HasLogin
       THEN LET r == get_cached_security_key(cacheFile, config.username) IN
            /\ trace' = Append(trace, Ev("load_cache"))
            /\ IF r.raised
               THEN Raise /\ UNCHANGED <<security_key, keySource>>
               ELSE IF KeyTruthy(r.key)
               THEN /\ security_key' = r.key
                    /\ keySource' = "cache"
                    /\ pc' = "liveness"
                    /\ ret' = ret
               ELSE /\ pc' = "login"
                    /\ UNCHANGED <<security_key, keySource, ret>>
       ELSE /\ ReturnFailure("", "no_auth_config")
            /\ UNCHANGED <<security_key, keySource, trace>>

\* lines 600-605: login, cache the key on success
InitialLogin ==
    /\ pc = "login"
    /\ UNCHANGED outside
    /\ UNCHANGED <<config, remote, client, infoFrom, task_data, task_status,
                   page, all_articles, probe, aid, collected, main_status,
                   task_results>>
    /\ \E out \in LoginOutcomes, writeOk \in BOOLEAN :
         LET key == login(out)
             c == cache_security_key(cacheFile, config.username, key, writeOk) IN
         /\ security_key' = key
         /\ keySource' = "login"
         /\ IF KeyTruthy(key)
            THEN IF c.raised
                 THEN /\ trace' = trace \o <<EvR("login", 0, LoginRes(key)), Ev("load_cache")>>
                      /\ Raise
                      /\ cacheFile' = cacheFile
                 ELSE /\ trace' = trace \o <<EvR("login", 0, LoginRes(key)), Ev("load_cache"),
                                             SaveEv(writeOk)>>
                      /\ cacheFile' = c.file
                      /\ pc' = "liveness"
                      /\ ret' = ret
            ELSE /\ trace' = Append(trace, EvR("login", 0, LoginRes(key)))
                 /\ ReturnFailure("", "login_failed")
                 /\ cacheFile' = cacheFile

\* lines 611-616 and 626-627: create the client, check the key with get_user_info
FirstCheck ==
    /\ pc = "liveness"
    /\ UNCHANGED outside
    /\ UNCHANGED <<config, cacheFile, remote, security_key, keySource, task_data,
                   task_status, page, all_articles, probe, aid, collected,
                   main_status, task_results>>
    /\ \E result \in UserInfoReturns :
         LET r == get_user_info(LKClient(security_key), result) IN
         /\ trace' = Append(trace, EvR("get_user_info", 0, InfoRes(r)))
         /\ client' = r.client
         /\ IF r.raised THEN Raise /\ infoFrom' = infoFrom
            ELSE IF r.ok
            THEN /\ pc' = "tasklist"
                 /\ infoFrom' = "liveness"
                 /\ ret' = ret
            ELSE /\ infoFrom' = infoFrom
                 /\ IF HasLogin
                    THEN pc' = "relogin" /\ ret' = ret
                    ELSE ReturnFailure("", "user_info_failed")

\* lines 617-621 and 624-625: login again, cache the key, replace the client
ReLogin ==
    /\ pc = "relogin"
    /\ UNCHANGED outside
    /\ UNCHANGED <<config, remote, keySource, infoFrom, task_data, task_status,
                   page, all_articles, probe, aid, collected, main_status,
                   task_results>>
    /\ \E out \in LoginOutcomes, writeOk \in BOOLEAN :
         LET key == login(out)
             c == cache_security_key(cacheFile, config.username, key, writeOk) IN
         /\ security_key' = key
         /\ IF KeyTruthy(key)
            THEN IF c.raised
                 THEN /\ trace' = trace \o <<EvR("login", 0, LoginRes(key)), Ev("load_cache")>>
                      /\ Raise
                      /\ UNCHANGED <<cacheFile, client>>
                 ELSE /\ trace' = trace \o <<EvR("login", 0, LoginRes(key)), Ev("load_cache"),
                                             SaveEv(writeOk)>>
                      /\ cacheFile' = c.file
                      /\ client' = ClientAfterReLogin(client, key)
                      /\ pc' = "recheck"
                      /\ ret' = ret
            ELSE /\ trace' = Append(trace, EvR("login", 0, LoginRes(key)))
                 /\ ReturnFailure("", "relogin_failed")
                 /\ UNCHANGED <<cacheFile, client>>

\* lines 622-623: check the fresh key
ReCheck ==
    /\ pc = "recheck"
    /\ UNCHANGED outside
    /\ UNCHANGED <<config, cacheFile, remote, security_key, keySource, task_data,
                   task_status, page, all_articles, probe, aid, collected,
                   main_status, task_results>>
    /\ \E result \in UserInfoReturns :
         LET r == get_user_info(client, result) IN
         /\ trace' = Append(trace, EvR("get_user_info", 0, InfoRes(r)))
         /\ client' = r.client
         /\ IF r.raised THEN Raise /\ infoFrom' = infoFrom
            ELSE IF r.ok
            THEN /\ pc' = "tasklist"
                 /\ infoFrom' = "relive"
                 /\ ret' = ret
            ELSE /\ infoFrom' = infoFrom
                 /\ ReturnFailure("", "user_info_failed")

-----------------------------------------------------------------------------
(* do_checkin: task list and article discovery, lines 634-647 *)

\* lines 635-642: fetch the task list, keep the status of each item
FetchTaskList ==
    /\ pc = "tasklist"
    /\ UNCHANGED outside
    /\ UNCHANGED <<config, cacheFile, remote, security_key, keySource, client,
                   infoFrom, page, all_articles, probe, aid, collected, main_status,
                   task_results>>
    /\ \E result \in {x \in TaskListReturns : FromSite(x, remote.items)} :
         LET r == get_task_list(result) IN
         /\ trace' = Append(trace, Ev("get_task_list"))
         /\ IF r.raised THEN Raise /\ UNCHANGED <<task_data, task_status>>
            ELSE IF r.data = None
            THEN /\ ReturnFailure(client.nickname, "task_list_failed")
                 /\ task_data' = r.data
                 /\ task_status' = task_status
            ELSE /\ task_data' = r.data
                 /\ task_status' = r.data[1].items
                 /\ pc' = "find_pages"
                 /\ ret' = ret

\* lines 368-376: fetch the pages one by one; no candidate at all is a failure
FetchPage ==
    /\ pc = "find_pages"
    /\ UNCHANGED outside
    /\ UNCHANGED <<config, cacheFile, remote, security_key, keySource, client,
                   infoFrom, task_data, task_status, probe, aid, collected,
                   main_status, task_results>>
    /\ IF page <= MaxPages
       THEN \E result \in {x \in ArticleListReturns :
                               ServesPage(x, remote.catalogue.pages[page])} :
              LET r == get_article_list(result) IN
              /\ trace' = Append(trace, EvT("get_article_list", page))
              /\ IF r.raised THEN Raise /\ UNCHANGED <<page, all_articles>>
                 ELSE /\ page' = page + 1
                      /\ all_articles' =
                           IF r.articles = None THEN all_articles
                           ELSE all_articles \o r.articles[1]
                      /\ pc' = pc
                      /\ ret' = ret
       ELSE IF all_articles = <<>>
       THEN /\ ReturnFailure(client.nickname, "no_article")
            /\ UNCHANGED <<page, all_articles, trace>>
       ELSE /\ \E order \in Shuffles(all_articles) : all_articles' = order
            /\ pc' = "find_probe"
            /\ UNCHANGED <<page, ret, trace>>

\* lines 383-401 and 645-647: probe the shuffled candidates until one is usable
ProbeArticle ==
    /\ pc = "find_probe"
    /\ UNCHANGED outside
    /\ UNCHANGED <<config, cacheFile, remote, security_key, keySource, client,
                   infoFrom, task_data, task_status, page, all_articles, collected,
                   main_status, task_results>>
    /\ IF probe > Len(all_articles)
       THEN /\ ReturnFailure(client.nickname, "no_article")
            /\ UNCHANGED <<probe, aid, trace>>
       ELSE \E result \in {x \in DetailReturns :
                      ServesDetail(x, remote.catalogue.flags[all_articles[probe]])} :
              LET a == all_articles[probe]
                  r == get_article_detail(result) IN
              /\ trace' = Append(trace, EvR("get_article_detail", a, ProbeRes(r)))
              /\ IF r.raised THEN Raise /\ UNCHANGED <<probe, aid>>
                 ELSE IF r.detail # None /\ Usable(r.detail[1])
                 THEN /\ aid' = a
                      /\ pc' = "task8"
                      /\ UNCHANGED <<probe, ret>>
                 ELSE /\ probe' = probe + 1
                      /\ pc' = pc
                      /\ UNCHANGED <<aid, ret>>

-----------------------------------------------------------------------------
(* do_checkin: the task steps, lines 649-759 *)

ResultAsTask8(t, reward, code) == <<8, reward.coin, reward.exp, code>>

\* the tuple a task step appends to task_results
Result(t, reward, code) == <<t, reward.coin, reward.exp, code>>
Nothing == [coin |-> 0, exp |-> 0]

DueAlways(status) == status <= 2

\* "if status < 2": the task is not claimed yet
Due(status) == status < 2

PrereqDueWhenClaimable(status) == status = 1

\* "if status == 0": the prerequisite is still to be done
PrereqDue(status) == status = 0

\* lines 655-662: task 8 is claimed whatever the list said
Task8 ==
    /\ pc = "task8"
    /\ UNCHANGED outside
    /\ UNCHANGED <<config, cacheFile, remote, security_key, keySource, client,
                   infoFrom, task_data, task_status, page, all_articles, probe, aid,
                   collected, main_status>>
    /\ \E result \in {x \in ClaimReturns : Grants(x, remote.reward)} :
         LET claim == claim_reward(result) IN
         /\ trace' = Append(trace, EvR("claim_reward", 8, ClaimRes(claim)))
         /\ IF claim.raised THEN Raise /\ UNCHANGED task_results
            ELSE /\ task_results' =
                      IF claim.reward # None
                      THEN Append(task_results, Result(8, claim.reward[1], "new"))
                      ELSE Append(task_results, Result(8, Nothing, "done"))
                 /\ pc' = "task1"
                 /\ ret' = ret

\* what the caller keeps of a prerequisite call: the value add_collection
\* returned; the values of the others are dropped
PrereqRes(prereq, pre) ==
    IF prereq # "add_collection" THEN ""
    ELSE IF Succeeded(pre) THEN "ok" ELSE "fail"

\* lines 664-717: tasks 1, 2, 3 and 5; prereq is the prerequisite call of the
\* task, "none" for task 5 which has none
StatusStep(t, prereq, next) ==
    LET status == StatusOf(task_status, t)
        acts == PrereqDue(status) /\ prereq # "none" IN
    /\ UNCHANGED outside
    /\ UNCHANGED <<config, cacheFile, remote, security_key, keySource, client,
                   infoFrom, task_data, task_status, page, all_articles, probe, aid,
                   main_status>>
    /\ IF Due(status)
       THEN \E pre \in SimpleReturns,
               result \in {x \in ClaimReturns : Grants(x, remote.reward)} :
              LET claim == claim_reward(result) IN
              /\ trace' = trace \o (IF acts THEN <<EvR(prereq, aid, PrereqRes(prereq, pre))>>
                                             ELSE <<>>)
                                \o <<EvR("claim_reward", t, ClaimRes(claim))>>
              /\ collected' = IF prereq = "add_collection"
                              THEN acts /\ Succeeded(pre) ELSE collected
              /\ IF claim.raised THEN Raise /\ UNCHANGED task_results
                 ELSE /\ task_results' =
                           IF claim.reward # None
                           THEN Append(task_results, Result(t, claim.reward[1], "new"))
                           ELSE task_results
                      /\ pc' = next
                      /\ ret' = ret
       ELSE /\ task_results' = Append(task_results, Result(t, Nothing, "done"))
            /\ collected' = IF prereq = "add_collection" THEN FALSE ELSE collected
            /\ pc' = next
            /\ UNCHANGED <<ret, trace>>

Task1 == pc = "task1" /\ StatusStep(1, "add_history", "task2")
Task2 == pc = "task2" /\ StatusStep(2, "add_collection", "task3")
Task3 == pc = "task3" /\ StatusStep(3, "like_article", "task5")
Task5 == pc = "task5" /\ StatusStep(5, "none", "task6")

EnoughCoinStrict(c) == c.coin > CoinThreshold

\* "if client.coin >= 10"
EnoughCoin(c) == c.coin >= CoinThreshold

\* lines 719-742: task 6, gated by the balance get_user_info left in the client
Task6 ==
    LET status == StatusOf(task_status, 6) IN
    /\ pc = "task6"
    /\ UNCHANGED outside
    /\ UNCHANGED <<config, cacheFile, remote, security_key, keySource, task_data,
                   task_status, page, all_articles, probe, aid, collected,
                   main_status>>
    /\ IF Due(status)
       THEN \E info \in UserInfoReturns, pre \in SimpleReturns,
               result \in {x \in ClaimReturns : Grants(x, remote.reward)} :
              LET r == get_user_info(client, info)
                  claim == claim_reward(result) IN
              /\ client' = r.client
              /\ infoFrom' = IF r.ok THEN "task6" ELSE infoFrom
              /\ IF r.raised
                 THEN /\ trace' = Append(trace, EvR("get_user_info", 0, InfoRes(r)))
                      /\ Raise
                      /\ UNCHANGED task_results
                 ELSE IF EnoughCoin(r.client)
                 THEN /\ trace' = trace \o <<EvR("get_user_info", 0, InfoRes(r))>>
                                    \o (IF PrereqDue(status)
                                        THEN <<EvT("use_coin", aid)>> ELSE <<>>)
                                    \o <<EvR("claim_reward", 6, ClaimRes(claim))>>
                      /\ IF claim.raised THEN Raise /\ UNCHANGED task_results
                         ELSE /\ task_results' =
                                   IF claim.reward # None
                                   THEN Append(task_results,
                                               Result(6, claim.reward[1], "new"))
                                   ELSE Append(task_results, Result(6, Nothing, "fail"))
                              /\ pc' = "task7"
                              /\ ret' = ret
                 ELSE /\ trace' = Append(trace, EvR("get_user_info", 0, InfoRes(r)))
                      /\ task_results' = Append(task_results, Result(6, Nothing, "skip"))
                      /\ pc' = "task7"
                      /\ ret' = ret
       ELSE /\ task_results' = Append(task_results, Result(6, Nothing, "done"))
            /\ pc' = "task7"
            /\ UNCHANGED <<client, infoFrom, ret, trace>>

KeepSnapshot(snapshot, fetched) == snapshot

\* line 747: task_data is replaced by what the second get_task_list returned
TaskDataAtTask7(snapshot, fetched) == fetched

\* lines 744-759: task 7, decided by the overall status of a second list fetch
Task7 ==
    /\ pc = "task7"
    /\ UNCHANGED outside
    /\ UNCHANGED <<config, cacheFile, remote, security_key, keySource, client,
                   infoFrom, task_status, page, all_articles, probe, aid, collected>>
    /\ \E list \in {x \in TaskListReturns : FromSite(x, remote.items)},
          result \in {x \in ClaimReturns : Grants(x, remote.reward)} :
         LET r == get_task_list(list)
             claim == claim_reward(result) IN
         /\ IF r.raised
            THEN /\ trace' = Append(trace, ListEv(r))
                 /\ Raise
                 /\ UNCHANGED <<task_data, main_status, task_results>>
            ELSE /\ task_data' = TaskDataAtTask7(task_data, r.data)
                 /\ main_status' = MainStatus(task_data')
                 /\ IF Due(MainStatus(task_data'))
                    THEN /\ trace' = trace \o <<ListEv(r),
                                                EvR("claim_reward", 7, ClaimRes(claim))>>
                         /\ IF claim.raised THEN Raise /\ UNCHANGED task_results
                            ELSE /\ task_results' =
                                      IF claim.reward # None
                                      THEN Append(task_results,
                                                  Result(7, claim.reward[1], "new"))
                                      ELSE Append(task_results,
                                                  Result(7, Nothing, "fail"))
                                 /\ pc' = "cleanup"
                                 /\ ret' = ret
                    ELSE /\ trace' = Append(trace, ListEv(r))
                         /\ task_results' =
                              Append(task_results, Result(7, Nothing, "done"))
                         /\ pc' = "cleanup"
                         /\ ret' = ret

-----------------------------------------------------------------------------
(* do_checkin: cleanup and report, lines 761-795 *)

CleanupWhenIssued(made) == Count("add_collection") = 1

\* "if collected:"
CleanupDue(made) == made

\* lines 764-767: undo the favourite this run made
Cleanup ==
    /\ pc = "cleanup"
    /\ UNCHANGED outside
    /\ UNCHANGED <<config, cacheFile, remote, security_key, keySource, client,
                   infoFrom, task_data, task_status, page, all_articles, probe, aid,
                   collected, main_status, task_results, ret>>
    /\ trace' = IF CleanupDue(collected) THEN Append(trace, EvT("del_collection", aid)) ELSE trace
    /\ pc' = "finish"

RECURSIVE SumDone(_, _)
SumDone(results, column) ==
    IF results = <<>> THEN 0
    ELSE (IF Head(results)[4] = "done" THEN Head(results)[column] ELSE 0)
         + SumDone(Tail(results), column)

\* sum(r[i] for r in task_results if r[3] == "new"), i the coin or the exp column
RECURSIVE SumNew(_, _)
SumNew(results, column) ==
    IF results = <<>> THEN 0
    ELSE (IF Head(results)[4] = "new" THEN Head(results)[column] ELSE 0)
         + SumNew(Tail(results), column)

\* lines 772-795: refresh the profile, total the new rewards, return success
Finish ==
    /\ pc = "finish"
    /\ UNCHANGED outside
    /\ UNCHANGED <<config, cacheFile, remote, security_key, keySource, task_data,
                   task_status, page, all_articles, probe, aid, collected,
                   main_status, task_results>>
    /\ \E info \in UserInfoReturns :
         LET r == get_user_info(client, info) IN
         /\ trace' = Append(trace, EvR("get_user_info", 0, InfoRes(r)))
         /\ client' = r.client
         /\ infoFrom' = IF r.ok THEN "final" ELSE infoFrom
         /\ IF r.raised THEN Raise
            ELSE /\ pc' = "returned"
                 /\ ret' = [success |-> TRUE, reason |-> "",
                            nickname |-> r.client.nickname,
                            task_results |-> task_results,
                            total_coin |-> SumNew(task_results, 2),
                            total_exp |-> SumNew(task_results, 3),
                            final_coin |-> r.client.coin,
                            final_exp |-> r.client.exp]

-----------------------------------------------------------------------------
(* main: load_config, send_telegram, exit status, lines 66-76, 487-516, 798-831 *)

\* the telegram section of config.yaml: the key missing, the key with no value
\* under it, or a mapping whose bot_token and chat_id may be empty
AbsentSection == [kind |-> "absent"]
NullSection == [kind |-> "null"]
Section(token, chat) == [kind |-> "dict", bot_token |-> token, chat_id |-> chat]

TelegramSections ==
    {AbsentSection, NullSection}
    \cup {Section(t, c) : t \in {"", "tok"}, c \in {"", "chat"}}

\* config.yaml: no such file, a file yaml.safe_load turns into None, a mapping
MissingConfig == [kind |-> "missing"]
EmptyConfig == [kind |-> "empty"]
ConfigFile(section) == [kind |-> "map", telegram |-> section]
ConfigFiles == {MissingConfig, EmptyConfig} \cup {ConfigFile(t) : t \in TelegramSections}
BaseConfigFile == ConfigFile(Section("tok", "chat"))

\* load_config raises FileNotFoundError when the file does not exist
load_config(file) == [raised |-> file.kind = "missing", config |-> file]

\* what requests.post to the Telegram API gives
TelegramOutcomes ==
    {[kind |-> "neterr"], [kind |-> "status", code |-> 200],
     [kind |-> "status", code |-> 500]}

\* send_telegram: [raised, sent, posted]; the two .get calls at its top are
\* outside its try and raise on a config or a telegram section that is None
send_telegram(cfg, out) ==
    IF cfg.kind = "empty" \/ cfg.telegram.kind = "null"
    THEN [raised |-> TRUE, sent |-> FALSE, posted |-> FALSE]
    ELSE LET bot_token == IF cfg.telegram.kind = "absent" THEN ""
                          ELSE cfg.telegram.bot_token
             chat_id == IF cfg.telegram.kind = "absent" THEN ""
                        ELSE cfg.telegram.chat_id IN
         IF bot_token = "" \/ chat_id = ""
         THEN [raised |-> FALSE, sent |-> FALSE, posted |-> FALSE]
         ELSE IF out.kind = "neterr"
         THEN [raised |-> FALSE, sent |-> FALSE, posted |-> TRUE]
         ELSE [raised |-> FALSE, sent |-> out.code = 200, posted |-> TRUE]

\* a send_telegram call in the trace: what the message reports, how the call ended
EvM(msg, r) ==
    [op |-> "send_telegram", arg |-> 0, msg |-> msg,
     res |-> IF r.raised THEN "raise" ELSE IF ~r.posted THEN "skipped"
             ELSE IF r.sent THEN "sent" ELSE "failed"]

\* the message do_checkin returned: the success report or the failure reason
Message(r) == IF r.success THEN "success" ELSE r.reason

\* lines 804-809 and 581-584: load the configuration, enter do_checkin and read
\* the lk section; config.get raises on a configuration that is None
LoadConfig ==
    /\ pc = "main"
    /\ UNCHANGED <<config, cacheFile, remote, keySource, client, infoFrom, task_data,
                   task_status, page, all_articles, probe, aid, collected,
                   main_status, task_results, ret, configFile, exit_status, post,
                   codec, history, procs>>
    /\ LET r == load_config(configFile) IN
       IF r.raised
       THEN /\ trace' = Append(trace, EvR("load_config", 0, "raise"))
            /\ pc' = "raised"
            /\ security_key' = security_key
       ELSE /\ trace' = Append(trace, EvR("load_config", 0, "ok"))
            /\ IF r.config.kind = "empty"
               THEN pc' = "raised" /\ security_key' = security_key
               ELSE pc' = "resolve" /\ security_key' = config.security_key

\* lines 811-818: push the message do_checkin returned, exit 1 on a failure;
\* an exception of send_telegram reaches the except clause of line 820
Notify ==
    /\ pc = "returned"
    /\ UNCHANGED <<config, cacheFile, remote, security_key, keySource, client,
                   infoFrom, task_data, task_status, page, all_articles, probe, aid,
                   collected, main_status, task_results, ret, configFile, post,
                   codec, history, procs>>
    /\ \E out \in TelegramOutcomes :
         LET r == send_telegram(configFile, out) IN
         /\ trace' = Append(trace, EvM(Message(ret), r))
         /\ IF r.raised
            THEN pc' = "raised" /\ exit_status' = exit_status
            ELSE /\ pc' = "exited"
                 /\ exit_status' = Some(IF ret.success THEN 0 ELSE 1)

\* lines 820-831: load the configuration again and push the exception; whatever
\* that raises is dropped; exit 1
HandleError ==
    /\ pc = "raised"
    /\ UNCHANGED <<config, cacheFile, remote, security_key, keySource, client,
                   infoFrom, task_data, task_status, page, all_articles, probe, aid,
                   collected, main_status, task_results, ret, configFile, post,
                   codec, history, procs>>
    /\ pc' = "exited"
    /\ exit_status' = Some(1)
    /\ LET c == load_config(configFile) IN
       IF c.raised
       THEN trace' = Append(trace, EvR("load_config", 0, "raise"))
       ELSE \E out \in TelegramOutcomes :
              trace' = trace \o <<EvR("load_config", 0, "ok"),
                                  EvM("exception", send_telegram(c.config, out))>>

-----------------------------------------------------------------------------
(* LKClient._post, attempt by attempt, lines 233-275 *)

CaughtRequestOnly(out) == out.kind = "neterr"

\* the two except clauses: requests.RequestException, then Exception
Caught(out) == out.kind = "neterr" \/ out.kind = "undecodable"

NeverAgain(attempt, retry) == TRUE

\* "if attempt == retry - 1: return None"
LastAttempt(attempt, retry) == attempt = retry - 1

\* no call of _post is in progress
PostIdle == [status |-> "idle"]

\* a call of _post about to enter its loop: what each attempt will meet, the
\* retry argument
PostCalls ==
    {[status |-> "running", outs |-> o, retry |-> n, attempt |-> 0, sent |-> <<>>,
      result |-> None] :
        o \in [1..Retry -> AttemptOutcomes(SimpleBodies)], n \in 0..Retry}

\* lines 233-273: one pass of the loop
PostAttempt ==
    /\ post.status = "running"
    /\ post.attempt < post.retry
    /\ UNCHANGED <<config, cacheFile, remote, pc, security_key, keySource, client,
                   infoFrom, task_data, task_status, page, all_articles, probe, aid,
                   collected, main_status, task_results, ret, trace, configFile,
                   exit_status, codec, history, procs>>
    /\ LET out == post.outs[post.attempt + 1]
           sent == Append(post.sent, out) IN
       post' = IF out.kind = "body"
               THEN [post EXCEPT !.sent = sent, !.status = "returned",
                                 !.result = Some(out.body)]
               ELSE IF ~Caught(out)
               THEN [post EXCEPT !.sent = sent, !.status = "raised"]
               ELSE IF LastAttempt(post.attempt, post.retry)
               THEN [post EXCEPT !.sent = sent, !.status = "returned"]
               ELSE [post EXCEPT !.sent = sent, !.attempt = @ + 1]

\* line 275: the loop ended without a return
PostExhausted ==
    /\ post.status = "running"
    /\ post.attempt >= post.retry
    /\ UNCHANGED <<config, cacheFile, remote, pc, security_key, keySource, client,
                   infoFrom, task_data, task_status, page, all_articles, probe, aid,
                   collected, main_status, task_results, ret, trace, configFile,
                   exit_status, codec, history, procs>>
    /\ post' = [post EXCEPT !.status = "returned"]

-----------------------------------------------------------------------------
\* nothing is being decoded, no earlier invocation, no concurrent invocation
NoCodec == [status |-> "idle"]
NoProcs == [status |-> "idle"]
Elsewhere ==
    /\ codec = NoCodec
    /\ history = <<>>
    /\ procs = NoProcs

\* the locals of do_checkin before its first statement
Locals ==
    /\ keySource = "none"
    /\ client = NoClient
    /\ infoFrom = "none"
    /\ task_data = None
    /\ task_status = <<>>
    /\ page = 1
    /\ all_articles = <<>>
    /\ probe = 1
    /\ aid = 0
    /\ collected = FALSE
    /\ main_status = 2
    /\ task_results = <<>>
    /\ ret = NoReturn
    /\ trace = <<>>

Init ==
    /\ \E w \in Worlds :
         /\ config = w.config
         /\ cacheFile = w.cacheFile
         /\ remote = w.remote
    /\ pc = "resolve"
    /\ security_key = config.security_key
    /\ Locals
    /\ configFile = BaseConfigFile
    /\ exit_status = None
    /\ post = PostIdle
    /\ Elsewhere

Next ==
    \/ ResolveCredential
    \/ InitialLogin
    \/ FirstCheck
    \/ ReLogin
    \/ ReCheck
    \/ FetchTaskList
    \/ FetchPage
    \/ ProbeArticle
    \/ Task8
    \/ Task1
    \/ Task2
    \/ Task3
    \/ Task5
    \/ Task6
    \/ Task7
    \/ Cleanup
    \/ Finish

Spec == Init /\ [][Next]_vars

\* the whole program: main around do_checkin
LoginConfig == [security_key |-> EmptyStr, username |-> "u1", password |-> "pw"]
NoAuthConfig == [security_key |-> EmptyStr, username |-> "", password |-> ""]
CachedKeyFile ==
    MapFile([i \in Identities |->
               IF i = "u1" THEN DictEntry(<<"C", "1">>, OldTime, TRUE) ELSE AbsentEntry])

MainWorlds ==
    {[world |-> World(BaseConfig, BaseCache, BaseRemote), configFile |-> f] :
        f \in ConfigFiles}
    \cup {[world |-> World(c, f, Remote(BaseItems, BaseReward, cat)),
            configFile |-> ConfigFile(t)] :
            c \in {NoAuthConfig, LoginConfig}, f \in {MissingFile, CachedKeyFile},
            cat \in {BaseCatalogue, UsedCatalogue},
            t \in {NullSection, Section("tok", "chat")}}
    \cup {[world |-> World(BaseConfig, BaseCache, Remote(Scenario, BaseReward, BaseCatalogue)),
            configFile |-> ConfigFile(t)] : t \in {AbsentSection, NullSection}}

MainInit ==
    /\ \E w \in MainWorlds :
         /\ config = w.world.config
         /\ cacheFile = w.world.cacheFile
         /\ remote = w.world.remote
         /\ configFile = w.configFile
    /\ pc = "main"
    /\ security_key = None
    /\ Locals
    /\ exit_status = None
    /\ post = PostIdle
    /\ Elsewhere

MainNext ==
    \/ LoadConfig
    \/ Next
    \/ Notify
    \/ HandleError

MainSpec == MainInit /\ [][MainNext]_vars

\* one call of _post
PostInit ==
    /\ config = BaseConfig
    /\ cacheFile = BaseCache
    /\ remote = BaseRemote
    /\ pc = "post"
    /\ security_key = config.security_key
    /\ Locals
    /\ configFile = BaseConfigFile
    /\ exit_status = None
    /\ post \in PostCalls
    /\ Elsewhere

PostNext ==
    \/ PostAttempt
    \/ PostExhausted

PostSpec == PostInit /\ [][PostNext]_vars

-----------------------------------------------------------------------------
(* The response codec: decode_response, lines 79-95, and the decoding of the *)
(* response body in _post, lines 241-264                                      *)

\* A JSON value, and the Python value json.loads makes of it, is a tuple of
\* tokens headed by its type; a text (str or bytes) is a tuple of tokens too,
\* an encoded text being headed by the name of its encoding.  An object has a
\* code ("-" when the key is absent) and a data value (<<>> when absent).
Null == <<"null">>
Bool(b) == <<"bool", b>>
Num(n) == <<"num", n>>
Str(text) == <<"str">> \o text
Arr(items) == <<"arr">> \o items
Obj(code, data) == <<"obj", code>> \o data

IsStr(x) == Head(x) = "str"
IsObj(x) == Head(x) = "obj"
HasData(o) == Len(o) > 2
DataOf(o) == SubSeq(o, 3, Len(o))

Payloads ==
    {<<>>, Null, Num("7"), Str(<<"x">>), Arr(<<>>), Obj("-", <<>>),
     Obj("-", Num("7"))}

JsonValues ==
    {Null, Bool("true"), Bool("false"), Num("0"), Num("7"), Str(<<>>),
     Str(<<"data">>), Arr(<<>>), Arr(Str(<<"data">>)), Arr(Num("7"))}
    \cup {Obj(c, d) : c \in {"-", "0", "1"}, d \in Payloads}

\* the encoders of the server (gz = 1: the body is the base64 text of the
\* zlib-compressed JSON text)
dumps(v) == <<"json">> \o v
compress(t) == <<"zlib">> \o t
b64encode(t) == <<"b64">> \o t
Envelope(v) == b64encode(compress(dumps(v)))

Thrown == [raised |-> TRUE, value |-> <<>>]
Ok(x) == [raised |-> FALSE, value |-> x]

\* base64.b64decode drops the characters outside its alphabet: of a text that is
\* no base64 text it leaves bytes that are no zlib stream, when it does not raise
b64decode(t) == IF t # <<>> /\ Head(t) = "b64" THEN Ok(Tail(t)) ELSE Ok(<<"junk">>)
decompress(t) == IF t # <<>> /\ Head(t) = "zlib" THEN Ok(Tail(t)) ELSE Thrown
loads(t) == IF t # <<>> /\ Head(t) = "json" THEN Ok(Tail(t)) ELSE Thrown

\* b64decode, zlib.decompress and json.loads in a row (lines 87-91, 247-249)
Unwrap(t) ==
    LET d == decompress(b64decode(t).value) IN
    IF d.raised THEN Thrown ELSE loads(d.value)

\* decode_response(data): a str that unwraps gives the value inside, any other
\* str and any other value is returned as it is
decode_response(data) ==
    IF IsStr(data)
    THEN LET r == Unwrap(Tail(data)) IN IF r.raised THEN data ELSE r.value
    ELSE data

\* lines 246-250: the body taken as an envelope; result.get('code') of line 250
\* is inside the try and raises on a value that is no dict
WholeBody(raw) ==
    LET r == Unwrap(raw) IN
    IF r.raised \/ ~IsObj(r.value) THEN Thrown ELSE r

\* lines 254-262: the body taken as JSON text; '"data" in result',
\* result["data"] and result.get('code') raise on a value that is no dict; a
\* data that is a str goes through decode_response
DirectJson(raw) ==
    LET r == loads(raw) IN
    IF r.raised \/ ~IsObj(r.value) THEN Thrown
    ELSE IF HasData(r.value) /\ IsStr(DataOf(r.value))
    THEN Ok(Obj(r.value[2], decode_response(DataOf(r.value))))
    ELSE r

\* what reaches the decoder for a value v: the envelope of v as the whole body
\* ("body"), the JSON text of v as the body ("plain"), a JSON body whose data
\* is the envelope of v as a string ("nested"), the envelope of v as a str
\* handed to decode_response ("direct")
Routes == {"body", "plain", "nested", "direct"}
Wire(route, v) ==
    CASE route = "body" -> Envelope(v)
      [] route = "plain" -> dumps(v)
      [] route = "nested" -> dumps(Obj("0", Str(Envelope(v))))
      [] route = "direct" -> Str(Envelope(v))

CodecStates ==
    {[status |-> "received", route |-> r, v |-> v, text |-> Wire(r, v), out |-> Null] :
        r \in Routes, v \in JsonValues}

CodecFrame ==
    UNCHANGED <<config, cacheFile, remote, pc, security_key, keySource, client,
                infoFrom, task_data, task_status, page, all_articles, probe, aid,
                collected, main_status, task_results, ret, trace, configFile,
                exit_status, post, history, procs>>

\* the first try of _post on the body of the response
DecodeWhole ==
    /\ codec.status = "received"
    /\ codec.route # "direct"
    /\ CodecFrame
    /\ LET r == WholeBody(codec.text) IN
       codec' = IF r.raised THEN [codec EXCEPT !.status = "fallback"]
                ELSE [codec EXCEPT !.status = "done", !.out = r.value]

\* the second try of _post; when it raises too the attempt is lost, and so is
\* every attempt that meets the same body: _post returns None
DecodeDirect ==
    /\ codec.status = "fallback"
    /\ CodecFrame
    /\ LET r == DirectJson(codec.text) IN
       codec' = [codec EXCEPT !.status = "done",
                              !.out = IF r.raised THEN Null ELSE r.value]

\* decode_response called on a str
DecodeString ==
    /\ codec.status = "received"
    /\ codec.route = "direct"
    /\ CodecFrame
    /\ codec' = [codec EXCEPT !.status = "done", !.out = decode_response(codec.text)]

CodecInit ==
    /\ config = BaseConfig
    /\ cacheFile = BaseCache
    /\ remote = BaseRemote
    /\ pc = "decode"
    /\ security_key = config.security_key
    /\ Locals
    /\ configFile = BaseConfigFile
    /\ exit_status = None
    /\ post = PostIdle
    /\ codec \in CodecStates
    /\ history = <<>>
    /\ procs = NoProcs

CodecNext ==
    \/ DecodeWhole
    \/ DecodeDirect
    \/ DecodeString

CodecSpec == CodecInit /\ [][CodecNext]_vars

-----------------------------------------------------------------------------
(* Consecutive invocations: the process ends, the next one starts with the    *)
(* same config.yaml and the cache file the earlier ones left, lines 118-159,  *)
(* 576-627                                                                    *)

MaxRuns == 2

\* an explicit credential next to the username and password
BothConfig == [security_key |-> <<"E", "1">>, username |-> "u1", password |-> "pw"]

RunWorlds ==
    {World(c, f, BaseRemote) :
        c \in {LoginConfig, BothConfig},
        f \in {MissingFile, UnparsableFile, CachedKeyFile}}

\* what a finished invocation leaves behind besides the cache file: whether it
\* logged in and wrote the credential to the cache file
Summary == [saved |-> \E i \in DOMAIN trace : trace[i] = SaveEv(TRUE)]

\* the invocation has ended; the next one enters do_checkin with fresh locals
NextRun ==
    /\ pc \in {"returned", "raised"}
    /\ Len(history) < MaxRuns - 1
    /\ history' = Append(history, Summary)
    /\ pc' = "resolve"
    /\ security_key' = config.security_key
    /\ keySource' = "none"
    /\ client' = NoClient
    /\ infoFrom' = "none"
    /\ task_data' = None
    /\ task_status' = <<>>
    /\ page' = 1
    /\ all_articles' = <<>>
    /\ probe' = 1
    /\ aid' = 0
    /\ collected' = FALSE
    /\ main_status' = 2
    /\ task_results' = <<>>
    /\ ret' = NoReturn
    /\ trace' = <<>>
    /\ UNCHANGED <<config, cacheFile, remote, configFile, exit_status, post, codec, procs>>

RunsInit ==
    /\ \E w \in RunWorlds :
         /\ config = w.config
         /\ cacheFile = w.cacheFile
         /\ remote = w.remote
    /\ pc = "resolve"
    /\ security_key = config.security_key
    /\ Locals
    /\ configFile = BaseConfigFile
    /\ exit_status = None
    /\ post = PostIdle
    /\ Elsewhere

RunsNext ==
    \/ Next
    \/ NextRun

RunsSpec == RunsInit /\ [][RunsNext]_vars

-----------------------------------------------------------------------------
(* do_checkin run to its end: every statement of do_checkin is a call that    *)
(* returns (requests.post has timeout=30, lines 185 and 238) or a step of a   *)
(* bounded loop, so the step the run is at is eventually taken                *)

FairWorlds ==
    {World(LoginConfig, f, Remote(BaseItems, BaseReward, c)) :
        f \in {MissingFile, CachedKeyFile}, c \in Catalogues}
    \cup {World(BothConfig, MissingFile, Remote(Scenario, BaseReward, BaseCatalogue)),
          World(NoAuthConfig, MissingFile, BaseRemote)}

FairInit ==
    /\ \E w \in FairWorlds :
         /\ config = w.config
         /\ cacheFile = w.cacheFile
         /\ remote = w.remote
    /\ pc = "resolve"
    /\ security_key = config.security_key
    /\ Locals
    /\ configFile = BaseConfigFile
    /\ exit_status = None
    /\ post = PostIdle
    /\ Elsewhere

FairSpec == FairInit /\ [][Next]_vars /\ WF_vars(Next)

-----------------------------------------------------------------------------
(* Two invocations, one for u1 and one for u2, that have both logged in and   *)
(* call cache_security_key on the same .lk_cache.json, lines 121-159.  Each   *)
(* one reads the file, opens it for writing, which empties it, and writes     *)
(* its mapping; nothing orders the steps of one against those of the other.   *)

Workers == {1, 2}
UserOf(p) == IF p = 1 THEN "u1" ELSE "u2"

\* the credential login returned to the invocation
KeyOf(p) == <<"L", IF p = 1 THEN "1" ELSE "2">>

\* an invocation about to call cache_security_key
Worker == [pc |-> "cache", content |-> MissingFile]
Racing == [status |-> "racing", of |-> [p \in Workers |-> Worker], log |-> <<>>]

\* a file opened with mode "w" and not written yet: empty, which json.load rejects
Truncated == UnparsableFile

RaceFrame ==
    UNCHANGED <<config, remote, pc, security_key, keySource, client, infoFrom,
                task_data, task_status, page, all_articles, probe, aid, collected,
                main_status, task_results, ret, trace, configFile, exit_status,
                post, codec, history>>

Step(p, to, content, op) ==
    procs' = [procs EXCEPT !.of[p] = [pc |-> to, content |-> content],
                           !.log = Append(@, <<p, op>>)]

\* lines 154-158: load_cache, then the entry set in the loaded mapping; what
\* save_cache is to write is kept until the file is open
RaceLoad(p) ==
    /\ procs.status = "racing"
    /\ procs.of[p].pc = "cache"
    /\ RaceFrame
    /\ cacheFile' = cacheFile
    /\ LET c == cache_security_key(cacheFile, UserOf(p), KeyOf(p), TRUE) IN
       IF c.raised THEN Step(p, "raised", MissingFile, "load")
       ELSE Step(p, "loaded", c.file, "load")

\* line 137: open(CACHE_FILE, "w"); when it fails save_cache returns False
RaceOpen(p) ==
    /\ procs.status = "racing"
    /\ procs.of[p].pc = "loaded"
    /\ RaceFrame
    /\ \E opened \in BOOLEAN :
         IF opened
         THEN /\ cacheFile' = Truncated
              /\ Step(p, "opened", procs.of[p].content, "open")
         ELSE /\ cacheFile' = cacheFile
              /\ Step(p, "failed", procs.of[p].content, "open")

\* line 138: json.dump and the close of the file; when the other invocation has
\* written the file since this one opened it the two texts overlay each other,
\* and what is left is this mapping or text that is no JSON
RaceDump(p) ==
    /\ procs.status = "racing"
    /\ procs.of[p].pc = "opened"
    /\ RaceFrame
    /\ cacheFile' \in IF cacheFile = Truncated
                      THEN {procs.of[p].content}
                      ELSE {procs.of[p].content, UnparsableFile}
    /\ Step(p, "done", procs.of[p].content, "dump")

RaceInit ==
    /\ config = LoginConfig
    /\ cacheFile \in CacheFiles
    /\ remote = BaseRemote
    /\ pc = "race"
    /\ security_key = config.security_key
    /\ Locals
    /\ configFile = BaseConfigFile
    /\ exit_status = None
    /\ post = PostIdle
    /\ codec = NoCodec
    /\ history = <<>>
    /\ procs = Racing

RaceNext ==
    \/ \E p \in Workers : RaceLoad(p)
    \/ \E p \in Workers : RaceOpen(p)
    \/ \E p \in Workers : RaceDump(p)

RaceSpec == RaceInit /\ [][RaceNext]_vars

-----------------------------------------------------------------------------
(* Reading the trace *)

CountT(op, t) ==
    Cardinality({i \in DOMAIN trace : trace[i].op = op /\ trace[i].arg = t})

\* the get_user_info calls so far, in order
Checks == SelectSeq(trace, LAMBDA e : e.op = "get_user_info")

Explicit == KeyTruthy(config.security_key)

\* the cache file holds a non-empty credential for identity u
CacheYields(file, u) ==
    /\ file.kind = "map"
    /\ u \in DOMAIN file.map
    /\ file.map[u].kind = "dict"
    /\ KeyTruthy(file.map[u].security_key)

\* no save_cache yet: the cache file is still the one the run started with
NoSaveYet == Count("save_cache") = 0

StepPcs == <<"task8", "task1", "task2", "task3", "task5", "task6", "task7",
             "cleanup", "finish">>

\* the run has completed the step of task t and is still inside do_checkin
Past(t) == \E j \in (Pos(t) + 2)..Len(StepPcs) : pc = StepPcs[j]

\* the prerequisite call of a task; tasks 8, 5 and 7 have none
PrereqOp(t) ==
    CASE t = 1 -> "add_history"
      [] t = 2 -> "add_collection"
      [] t = 3 -> "like_article"
      [] t = 6 -> "use_coin"
      [] OTHER -> "none"

Prereqs(t) == Count(PrereqOp(t))
Claims(t) == CountT("claim_reward", t)
AllPrereqs ==
    Cardinality({i \in DOMAIN trace :
        trace[i].op \in {"add_history", "add_collection", "like_article", "use_coin"}})

\* the outcome codes recorded for task t
Outcomes(t) ==
    {task_results[i][4] : i \in {j \in DOMAIN task_results : task_results[j][1] = t}}
ResultsOf(t) == Cardinality({j \in DOMAIN task_results : task_results[j][1] = t})

\* some prerequisite call of task t comes before every claim call of task t
PrereqFirst(t) ==
    \A i \in DOMAIN trace :
        trace[i].op = PrereqOp(t) =>
            \A j \in DOMAIN trace :
                (trace[j].op = "claim_reward" /\ trace[j].arg = t) => i < j

-----------------------------------------------------------------------------
(* Claims *)

\* C1 (as stated): the credential is resolved in the order explicit key, cached
\* key, login; with an explicit key nothing is read or called before the first
\* liveness check, and a cache entry for the configured identity (no explicit
\* key) is used without login
C1_AsStated ==
    /\ (Explicit /\ pc # "resolve") =>
          /\ keySource = "config"
          /\ (pc = "liveness" => trace = <<>> /\ security_key = config.security_key)
    /\ (~Explicit /\ config.username # "" /\ CacheYields(cacheFile, config.username)
          /\ NoSaveYet /\ pc # "resolve") =>
          /\ keySource = "cache"
          /\ (pc = "liveness" =>
                /\ trace = <<Ev("load_cache")>>
                /\ security_key = cacheFile.map[config.username].security_key)
    /\ pc = "login" => ~Explicit /\ ~CacheYields(cacheFile, config.username)

\* C1 (amended): the same, the cached key being used when username and password
\* are both configured and the cache holds a non-empty key for the username
C1_ResolutionOrder ==
    /\ (Explicit /\ pc # "resolve") =>
          /\ keySource = "config"
          /\ (pc = "liveness" => trace = <<>> /\ security_key = config.security_key)
    /\ (~Explicit /\ config.username # "" /\ config.password # ""
          /\ CacheYields(cacheFile, config.username) /\ NoSaveYet /\ pc # "resolve") =>
          /\ keySource = "cache"
          /\ (pc = "liveness" =>
                /\ trace = <<Ev("load_cache")>>
                /\ security_key = cacheFile.map[config.username].security_key)
    /\ pc = "login" => ~Explicit /\ ~CacheYields(cacheFile, config.username)

C1_Witness ==
    /\ pc = "liveness"
    /\ keySource = "cache"
    /\ security_key = <<"C", "1">>
    /\ Count("login") = 0

\* the first liveness check was made on a cached key and returned False
CachedKeyFailed == keySource = "cache" /\ Len(Checks) >= 1 /\ Checks[1].res = "fail"

\* C2: a cached key that fails the liveness check, username and password being
\* configured, leads to exactly one login call; if the fresh key passes the
\* check the run goes on to the task-list fetch with the fresh key
C2_ReloginOnce ==
    (CachedKeyFailed /\ pc # "relogin") =>
        /\ Count("login") = 1
        /\ (Len(Checks) >= 2 /\ Checks[2].res = "ok") =>
              /\ client.security_key \in LoginKeys
              /\ client.security_key = security_key
              /\ pc = "tasklist" \/ Count("get_task_list") >= 1
              /\ pc = "returned" =>
                    ret.reason \notin {"no_auth_config", "login_failed",
                                       "user_info_failed", "relogin_failed"}

C2_Witness ==
    /\ CachedKeyFailed
    /\ Len(Checks) >= 2
    /\ Checks[2].res = "ok"
    /\ Count("login") = 1
    /\ Count("get_task_list") = 1
    /\ client.security_key = <<"L", "1">>

\* C3: the forced re-login follows only an explicit or a cached key, so a run
\* calls login at most once
C3_LoginAtMostOnce ==
    /\ pc = "relogin" => keySource \in {"config", "cache"}
    /\ Count("login") <= 1

\* only a cached credential: a username, no explicit key, no password
CacheOnly ==
    /\ ~Explicit
    /\ config.username # ""
    /\ config.password = ""
    /\ CacheYields(cacheFile, config.username)

\* C4 (as stated): with only a cached credential the run uses it, makes the
\* liveness check and ends in an authentication failure without login
C4_AsStated ==
    (CacheOnly /\ pc = "returned") =>
        /\ keySource = "cache"
        /\ Count("get_user_info") = 1
        /\ Count("login") = 0
        /\ ~ret.success

\* C4 (amended): with only a cached credential the run ends in the failure for
\* missing authentication settings; it reads no cache, makes no liveness check
\* and calls no login
C4_CacheOnlyFails ==
    (CacheOnly /\ pc # "resolve") =>
        /\ pc = "returned"
        /\ ~ret.success
        /\ ret.reason = "no_auth_config"
        /\ keySource = "none"
        /\ trace = <<>>

C4_Witness == CacheOnly /\ pc = "returned" /\ ret.reason = "no_auth_config"

\* the status the run read for task t: the overall status of the second fetch
\* for task 7, the listed status for task 8, task_status.get(t, 2) for the rest
StatusRead(t) ==
    CASE t = 7 -> main_status
      [] t = 8 -> IF 8 \in DOMAIN task_status THEN task_status[8] ELSE -1
      [] OTHER -> StatusOf(task_status, t)

\* a claimed task is left alone and recorded as done
LeftAlone(t) ==
    (Past(t) /\ StatusRead(t) = 2) =>
        /\ Claims(t) = 0
        /\ Prereqs(t) = 0
        /\ Outcomes(t) = {"done"}
        /\ ResultsOf(t) = 1

\* C5 (as stated): each of the seven tasks whose status is claimed gets no
\* prerequisite action and no claim call and is recorded as already done
C5_AsStated == \A t \in TaskIds : LeftAlone(t)

\* C5 (amended): that holds of tasks 1, 2, 3, 5, 6 and 7; task 8 is claimed
\* once whatever its status, and recorded new on success, done otherwise
C5_ClaimedLeftAlone ==
    /\ \A t \in TaskIds \ {8} : LeftAlone(t)
    /\ Past(8) =>
          /\ Claims(8) = 1
          /\ ResultsOf(8) = 1
          /\ \A i \in DOMAIN trace :
                (trace[i].op = "claim_reward" /\ trace[i].arg = 8) =>
                    Outcomes(8) = IF trace[i].res = "ok" THEN {"new"} ELSE {"done"}

C5_Witness ==
    /\ pc = "finish"
    /\ \A t \in TaskIds : StatusRead(t) = 2
    /\ Claims(8) = 1
    /\ Outcomes(2) = {"done"}
    /\ Outcomes(7) = {"done"}

\* the balance the currency step compared, unchanged until the final refresh
GatePassed(t) == t = 6 => client.coin >= 10

\* one prerequisite call, then one claim call
PrereqThenClaim(t) ==
    (Past(t) /\ StatusOf(task_status, t) = 0 /\ GatePassed(t)) =>
        /\ Prereqs(t) = 1
        /\ Claims(t) = 1
        /\ PrereqFirst(t)

\* C6 (as stated): each of tasks 1, 2, 3, 5, 6 whose status is incomplete (the
\* balance check passing for task 6) gets exactly one prerequisite action and
\* then exactly one claim call
C6_AsStated == \A t \in {1, 2, 3, 5, 6} : PrereqThenClaim(t)

\* C6 (amended): that holds of tasks 1, 2, 3 and 6; task 5 has no prerequisite
\* action and gets exactly one claim call, and the run makes no prerequisite
\* call besides those of the incomplete tasks 1, 2, 3 and 6
C6_IncompleteActsThenClaims ==
    /\ \A t \in {1, 2, 3, 6} : PrereqThenClaim(t)
    /\ (Past(5) /\ StatusOf(task_status, 5) = 0) => Claims(5) = 1
    /\ Past(6) =>
          AllPrereqs = Cardinality({t \in {1, 2, 3, 6} :
                          StatusOf(task_status, t) = 0 /\ GatePassed(t)})

C6_Witness ==
    /\ pc = "finish"
    /\ \A t \in {1, 2, 3, 5, 6} : StatusOf(task_status, t) = 0
    /\ client.coin >= 10
    /\ AllPrereqs = 4
    /\ Claims(5) = 1
    /\ Claims(6) = 1

\* C7: each of tasks 1, 2, 3, 5, 6 whose status is claimable gets no
\* prerequisite action and exactly one claim call
C7_ClaimableClaimsOnce ==
    \A t \in {1, 2, 3, 5, 6} :
        (Past(t) /\ StatusOf(task_status, t) = 1) =>
            /\ Prereqs(t) = 0
            /\ Claims(t) = 1

\* what the site's reward gives claim_reward to return
Delta ==
    IF remote.reward = NoData THEN Nothing
    ELSE [coin |-> remote.reward.coin, exp |-> remote.reward.exp]

\* C8: every claim call that returned leaves exactly one result for its task:
\* new with the returned deltas when it succeeded, failed when it did not
C8_ClaimLeavesResult ==
    \A i \in DOMAIN trace :
        (trace[i].op = "claim_reward" /\ trace[i].res # "raise") =>
            /\ ResultsOf(trace[i].arg) = 1
            /\ \A j \in DOMAIN task_results :
                  task_results[j][1] = trace[i].arg =>
                      task_results[j] =
                          IF trace[i].res = "ok"
                          THEN Result(trace[i].arg, Delta, "new")
                          ELSE Result(trace[i].arg, Nothing, "fail")

\* C9: task 6 incomplete: under a balance of 10 the task is skipped with no
\* use_coin and no claim call; from 10 on use_coin is called once and then
\* claim_reward(6) once
C9_CoinGate ==
    (Past(6) /\ StatusOf(task_status, 6) = 0) =>
        IF client.coin < 10
        THEN /\ Outcomes(6) = {"skip"}
             /\ Count("use_coin") = 0
             /\ Claims(6) = 0
        ELSE /\ Count("use_coin") = 1
             /\ Claims(6) = 1
             /\ PrereqFirst(6)
             /\ Outcomes(6) \subseteq {"new", "fail"}

C9_Witness ==
    /\ pc = "task7"
    /\ StatusOf(task_status, 6) = 0
    /\ client.coin = 10
    /\ Count("use_coin") = 1
    /\ Claims(6) = 1

\* C10: the balance compared in the currency step is the one returned by the
\* profile fetch of that step, never one obtained earlier
C10_FreshBalance ==
    (pc = "task7" /\ StatusOf(task_status, 6) < 2) => infoFrom = "task6"

\* the get_task_list calls so far, in order
Lists == SelectSeq(trace, LAMBDA e : e.op = "get_task_list")

\* the place of the n-th get_task_list call in the trace
ListAt(n) ==
    CHOOSE i \in DOMAIN trace :
        /\ trace[i].op = "get_task_list"
        /\ Cardinality({j \in 1..i : trace[j].op = "get_task_list"}) = n

\* C11: task 7 is handled after the steps of the six other tasks whatever their
\* outcomes: the second get_task_list call follows every prerequisite and every
\* claim call of the other tasks, the result of task 7 is recorded last, and
\* claim_reward(7) is called exactly when the overall status of that second
\* fetch is under 2, whatever the first fetch listed
C11_AggregateLast ==
    (pc \in {"cleanup", "finish"}) =>
        /\ Len(Lists) = 2
        /\ \A i \in DOMAIN trace :
              /\ trace[i].op \in {"add_history", "add_collection", "like_article",
                                  "use_coin"} => i < ListAt(2)
              /\ trace[i].op = "claim_reward" =>
                    IF trace[i].arg = 7 THEN i > ListAt(2) ELSE i < ListAt(2)
        /\ task_results[Len(task_results)][1] = 7
        /\ ResultsOf(7) = 1
        /\ main_status = Lists[2].arg
        /\ Claims(7) = IF Lists[2].arg < 2 THEN 1 ELSE 0

C11_Witness ==
    /\ pc = "cleanup"
    /\ Len(Lists) = 2
    /\ StatusOf(task_status, 7) = 2
    /\ Lists[2].arg = 0
    /\ Claims(7) = 1
    /\ Outcomes(6) = {"fail"}
    /\ Claims(1) = 1
    /\ ResultsOf(1) = 0

\* the favourite call of this run returned True
Favourited ==
    \E i \in DOMAIN trace : trace[i].op = "add_collection" /\ trace[i].res = "ok"

\* a del_collection call comes after the favourite call and every claim call
CleanupComesLast ==
    \A i \in DOMAIN trace :
        trace[i].op = "del_collection" =>
            \A j \in DOMAIN trace :
                trace[j].op \in {"add_collection", "claim_reward"} => j < i

\* C12 (as stated): del_collection is called if and only if add_collection was
\* called in the run, that is if the favourite task was incomplete, and then
\* after the favourite call and after every claim call
C12_AsStated ==
    /\ pc = "finish" =>
          /\ Count("del_collection") = Count("add_collection")
          /\ Count("add_collection") = IF StatusOf(task_status, 2) = 0 THEN 1 ELSE 0
    /\ CleanupComesLast

\* C12 (amended): add_collection is called exactly when the favourite task is
\* incomplete; del_collection is called once if that call returned True and not
\* at all otherwise, and then after the favourite call and every claim call
C12_CleanupIffFavourited ==
    /\ Past(2) => Count("add_collection") = IF StatusOf(task_status, 2) = 0 THEN 1 ELSE 0
    /\ pc = "finish" => Count("del_collection") = IF Favourited THEN 1 ELSE 0
    /\ pc \in {"finish", "returned", "raised"} \/ Count("del_collection") = 0
    /\ collected <=> Favourited
    /\ CleanupComesLast

C12_Witness ==
    /\ pc = "finish"
    /\ Favourited
    /\ Count("del_collection") = 1
    /\ Claims(2) = 1
    /\ Claims(7) = 1

\* the results recorded as newly claimed
NewResults == {j \in DOMAIN task_results : task_results[j][4] = "new"}

\* C13: the totals of the report are the sums of the deltas of the results
\* recorded as new: every new result carries the reward the site granted, so
\* each total is that reward times the number of new results, whatever results
\* are recorded as done, skipped or failed
C13_TotalsOfNew ==
    (pc = "returned" /\ ret.success) =>
        /\ ret.task_results = task_results
        /\ \A j \in NewResults :
              task_results[j] = Result(task_results[j][1], Delta, "new")
        /\ ret.total_coin = Cardinality(NewResults) * Delta.coin
        /\ ret.total_exp = Cardinality(NewResults) * Delta.exp

C13_Witness ==
    /\ pc = "returned"
    /\ ret.success
    /\ ret.total_coin = 3
    /\ ret.total_exp = 6
    /\ Outcomes(6) = {"fail"}
    /\ Outcomes(7) = {"done"}
    /\ \E t \in TaskIds : Outcomes(t) = {"skip"} \/ ResultsOf(t) = 0

\* the attempts that did not end the call: all but the last one made
Resent == {i \in 1..Len(post.sent) : i < Len(post.sent)}

\* a decoded response ends the call at once, whatever its code
DecodedIsReturned ==
    /\ \A i \in Resent : post.sent[i].kind # "body"
    /\ (post.status # "running" /\ Len(post.sent) > 0
          /\ post.sent[Len(post.sent)].kind = "body") =>
          /\ post.status = "returned"
          /\ post.result = Some(post.sent[Len(post.sent)].body)

\* C14 (as stated): _post makes a further attempt only after a network-level
\* failure; a decoded response is returned after one attempt even with a
\* non-zero code, and an undecodable response is not followed by an attempt
C14_AsStated ==
    /\ DecodedIsReturned
    /\ \A i \in Resent : post.sent[i].kind = "neterr"

\* C14 (amended): _post makes a further attempt after a network-level failure
\* and after a response that cannot be decoded, as long as attempts are left;
\* a decoded response is returned after that one attempt even with a non-zero
\* code
C14_ResendOnFailure ==
    /\ DecodedIsReturned
    /\ \A i \in Resent : post.sent[i].kind \in {"neterr", "undecodable"}
    /\ (post.status = "returned" /\ post.result = None) =>
          /\ Len(post.sent) = post.retry
          /\ \A i \in 1..Len(post.sent) : post.sent[i].kind \in {"neterr", "undecodable"}

C14_Witness ==
    /\ post.status = "returned"
    /\ post.retry = Retry
    /\ Len(post.sent) = 3
    /\ post.sent[1].kind = "undecodable"
    /\ post.sent[2].kind = "neterr"
    /\ post.result = Some([code |-> 1, data |-> NoData])

\* C15: one call of _post makes at most retry attempts, returns None when every
\* attempt failed, and lets no exception out; what it returns and the number of
\* attempts are those of _post as the callers of do_checkin see it
C15_BoundedNoRaise ==
    /\ post.status # "raised"
    /\ Len(post.sent) <= post.retry
    /\ post.status = "returned" =>
          /\ post.result = _post(post.outs, post.retry)
          /\ Len(post.sent) = PostAttempts(post.outs, 0, post.retry)
          /\ (\A i \in 1..post.retry : post.outs[i].kind # "body") => post.result = None

C15_Witness ==
    /\ post.status = "returned"
    /\ post.retry = Retry
    /\ Len(post.sent) = Retry
    /\ post.result = None
    /\ post.sent[1].kind = "undecodable"
    /\ post.sent[Retry].kind = "neterr"

\* the cache file is missing, is no JSON, or is JSON that is no mapping of
\* identities to entry objects as far as identity u goes
Malformed(file, u) ==
    \/ file.kind \in {"missing", "unparsable", "nonmap"}
    \/ file.kind = "map" /\ u \in DOMAIN file.map /\ file.map[u].kind = "scalar"

\* C16: reading a missing or malformed cache never fails the run:
\* get_cached_security_key gives no credential, as for an empty cache, and the
\* run goes on to login
C16_CacheReadTolerant ==
    (HasLogin /\ ~Explicit /\ NoSaveYet /\ pc # "resolve"
        /\ Malformed(cacheFile, config.username)) =>
        /\ keySource # "cache"
        /\ ~(pc = "raised" /\ trace = <<Ev("load_cache")>>)
        /\ pc = "login" \/ Count("login") >= 1

\* the step ends with a save_cache call that wrote the file
Saved == Len(trace') > Len(trace) /\ trace'[Len(trace')] = SaveEv(TRUE)

\* C17: cache_security_key on a cache that loads as a mapping, the file being
\* written: the file then maps the identity to an entry made of the new
\* credential and its timestamp alone, and every other identity to the entry it
\* had
C17_EntryReplaced ==
    [][Saved =>
         LET old == load_cache(cacheFile)
             u == config.username IN
         /\ old.kind = "dict"
         /\ cacheFile'.kind = "map"
         /\ DOMAIN cacheFile'.map = DOMAIN old.map \cup {u}
         /\ cacheFile'.map[u] = DictEntry(security_key', Now, FALSE)
         /\ \A i \in DOMAIN old.map \ {u} : cacheFile'.map[i] = old.map[i]]_vars

C17_Witness ==
    /\ keySource = "cache"
    /\ Len(trace) > 0
    /\ trace[Len(trace)] = SaveEv(TRUE)
    /\ cacheFile = MapFile([i \in Identities |->
                              IF i = "u1" THEN DictEntry(<<"L", "1">>, Now, FALSE)
                              ELSE DictEntry(<<"D", "2">>, OldTime, FALSE)])

\* the places in the trace where the cache file was written
Writes == {i \in DOMAIN trace : trace[i] = SaveEv(TRUE)}

\* C18: a run writes the cache file at most once, and each write comes right
\* after a login call that returned a credential (cache_security_key loads the
\* cache, then saves it)
C18_WriteAtMostOnce ==
    /\ Cardinality(Writes) <= 1
    /\ \A i \in Writes :
          /\ i >= 3
          /\ trace[i - 1] = Ev("load_cache")
          /\ trace[i - 2] = EvR("login", 0, "ok")

\* the exit status do_checkin alone determines: 0 when it reported success, 1
\* when it reported a failure or raised
StatusOfCheckin == Some(IF ret.success THEN 0 ELSE 1)

\* send_telegram was called with the reason of the failure: the reason
\* do_checkin returned, or the exception
ReasonPushed ==
    \E i \in DOMAIN trace :
        /\ trace[i].op = "send_telegram"
        /\ trace[i].msg = IF ret = NoReturn THEN "exception" ELSE ret.reason

\* C19: main exits 0 when do_checkin reported success and 1 on every failure,
\* and on every failure send_telegram is called with the reason before the exit
C19_ExitAndNotify ==
    pc = "exited" =>
        /\ exit_status = StatusOfCheckin
        /\ ~ret.success => ReasonPushed

\* C20: a notification step that fails (settings incomplete, a response other
\* than 200, an exception) leaves the exit status the one do_checkin determined
C20_NotifyKeepsStatus ==
    (pc = "exited" /\ ret # NoReturn
        /\ \E i \in DOMAIN trace :
              trace[i].op = "send_telegram" /\ trace[i].res # "sent") =>
        exit_status = StatusOfCheckin

\* C21: when do_checkin returns a failure no prerequisite call, no claim call
\* and no cleanup call has been made in the run; when the failure is the missing
\* authentication configuration no call at all has been made
C21_FailureBeforeTasks ==
    (pc = "returned" /\ ~ret.success) =>
        /\ ret.reason \in {"no_auth_config", "login_failed", "user_info_failed",
                           "relogin_failed", "task_list_failed", "no_article"}
        /\ AllPrereqs = 0
        /\ Count("claim_reward") = 0
        /\ Count("del_collection") = 0
        /\ task_results = <<>>
        /\ ret.reason = "no_auth_config" => trace = <<>>

C21_Witness ==
    /\ pc = "returned"
    /\ ret.reason = "no_article"
    /\ Count("get_article_list") = MaxPages
    /\ Count("get_article_detail") = 2
    /\ Count("claim_reward") = 0

\* the get_article_detail calls so far, in order
Probes == SelectSeq(trace, LAMBDA e : e.op = "get_article_detail")

\* find_valid_article has ended, with an article or without
SearchEnded ==
    /\ pc \notin {"resolve", "login", "liveness", "relogin", "recheck", "tasklist",
                  "find_pages", "find_probe", "raised"}
    /\ Count("get_article_list") > 0

\* C22: find_valid_article fetches at most max_pages pages, probes each
\* candidate at most once and nothing after the first usable one; the article
\* it returns is the one probed last, whose detail reported the three flags as
\* 0; it returns none exactly when no probe was usable
C22_FirstUsableArticle ==
    /\ Count("get_article_list") <= MaxPages
    /\ Len(Probes) <= Len(all_articles)
    /\ \A i, j \in DOMAIN Probes : i # j => Probes[i].arg # Probes[j].arg
    /\ \A i \in DOMAIN Probes : Probes[i].res = "usable" => i = Len(Probes)
    /\ aid # 0 =>
          /\ Probes[Len(Probes)] = EvR("get_article_detail", aid, "usable")
          /\ remote.catalogue.flags[aid] = Flags(0, 0, 0)
    /\ SearchEnded =>
          /\ Count("get_article_list") = MaxPages
          /\ aid = 0 <=> (pc = "returned" /\ ret.reason = "no_article")
          /\ aid = 0 <=> \A i \in DOMAIN Probes : Probes[i].res # "usable"
          /\ aid = 0 => Len(Probes) = Len(all_articles)

C22_Witness ==
    /\ pc = "task8"
    /\ aid = 2
    /\ Len(Probes) = 3
    /\ Probes[1].res = "fail"
    /\ Probes[2] = EvR("get_article_detail", 3, "unusable")

\* C23: the final coin and exp of a success report are those a get_user_info
\* call made after the cleanup step returned
C23_FinalBalanceRefetched ==
    (pc = "returned" /\ ret.success) =>
        /\ infoFrom = "final"
        /\ trace[Len(trace)] = EvR("get_user_info", 0, "ok")

\* C26: a run in which add_collection returned True does not end, by a return or
\* by an exception leaving do_checkin, before del_collection was called for the
\* same article
C26_FavouriteUndone ==
    (pc \in {"returned", "raised"} /\ Favourited) =>
        \E i \in DOMAIN trace : trace[i].op = "del_collection" /\ trace[i].arg = aid

\* the task ids of the claim_reward calls so far, in order
ClaimCalls == SelectSeq(trace, LAMBDA e : e.op = "claim_reward")

\* C27: the claim calls of a run follow the order 8, 1, 2, 3, 5, 6, 7 with no
\* task id claimed twice, and task_results follows the same order with no task
\* id recorded twice
C27_ClaimsInOrder ==
    /\ \A i \in 1..(Len(ClaimCalls) - 1) :
           Pos(ClaimCalls[i].arg) < Pos(ClaimCalls[i + 1].arg)
    /\ \A i \in 1..(Len(task_results) - 1) :
           Pos(task_results[i][1]) < Pos(task_results[i + 1][1])
    /\ \A t \in TaskIds : Claims(t) <= 1 /\ ResultsOf(t) <= 1

C27_Witness ==
    /\ pc = "returned"
    /\ ret.success
    /\ Len(ClaimCalls) = 7
    /\ Len(task_results) = 7
    /\ ClaimCalls[7].arg = 7

\* C28: once find_valid_article has returned an article, which it is asked for
\* after the authentication and the first get_task_list succeeded, no exception
\* leaves do_checkin, do_checkin returns success and main exits with status 0
C28_SuccessAfterDiscovery ==
    aid # 0 =>
        /\ pc # "raised"
        /\ pc = "returned" => ret.success
        /\ pc = "exited" => exit_status = Some(0)

\* C24: the decoder gives back the value inside an envelope: _post returns v for
\* a body that is the envelope of v, decode_response returns v for a str that is
\* the envelope of v, and _post puts v in the data field of a JSON body whose
\* data is that str
C24_EnvelopeRoundTrip ==
    codec.status = "done" =>
        /\ codec.route \in {"body", "direct"} => codec.out = codec.v
        /\ codec.route = "nested" => codec.out = Obj("0", codec.v)

\* the invocation before this one logged in and wrote the credential
SavedBefore == history # <<>> /\ history[Len(history)].saved

\* the get_user_info calls of this invocation, in order
Infos == SelectSeq(trace, LAMBDA e : e.op = "get_user_info")

\* C25 (as stated): with username and password configured, the invocation that
\* follows one which logged in and wrote the credential calls login only after
\* a liveness check made with the credential of the cache file has failed
C25_AsStated ==
    (SavedBefore /\ Count("login") > 0) =>
        /\ keySource = "cache"
        /\ Infos[1].res = "fail"

\* C25 (amended): with username and password configured and no explicit
\* credential, the invocation that follows one which logged in and wrote the
\* credential takes the credential of the cache file, and calls login only
\* after the liveness check made with it has failed
C25_CachedKeyReused ==
    (SavedBefore /\ ~KeyTruthy(config.security_key)) =>
        /\ pc # "resolve" => keySource = "cache" /\ pc # "login"
        /\ pc = "liveness" => security_key \in LoginKeys
        /\ Count("login") > 0 => Infos[1].res = "fail"

C25_Witness ==
    /\ SavedBefore
    /\ config = LoginConfig
    /\ pc = "tasklist"
    /\ keySource = "cache"
    /\ security_key \in LoginKeys
    /\ Count("login") = 0
    /\ Count("get_user_info") = 1

\* the calls of a run stay within their bounds: at most max_pages page fetches,
\* at most one detail probe for each article, at most two login calls
CallsBounded ==
    /\ Count("get_article_list") <= MaxPages
    /\ \A a \in DOMAIN remote.catalogue.flags : CountT("get_article_detail", a) <= 1
    /\ Count("login") <= 2

BothWrote ==
    /\ procs.status = "racing"
    /\ \A p \in Workers : procs.of[p].pc = "done"

\* the place of a step of an invocation among the steps of both
At(p, op) == CHOOSE i \in DOMAIN procs.log : procs.log[i] = <<p, op>>

\* the invocation that wrote last, and the other one
Later == procs.log[Len(procs.log)][1]
Earlier == 3 - Later

\* the file holds the entry the invocation made for its identity
Holds(p) ==
    /\ cacheFile.kind = "map"
    /\ cacheFile.map[UserOf(p)] = DictEntry(KeyOf(p), Now, FALSE)

\* C30 (as stated): when two invocations for two identities have logged in and
\* have both written the cache file, the file holds the entries of both
C30_AsStated ==
    BothWrote => Holds(1) /\ Holds(2)

\* C30 (amended): the file is left as the invocation that wrote last left it:
\* it holds that invocation's mapping, or text that is no JSON when the two
\* writes overlapped; it holds the entries of both identities exactly when the
\* invocation that wrote last read the file after the other one had written it
C30_LastWriterWins ==
    BothWrote =>
        /\ cacheFile \in {procs.of[Later].content, UnparsableFile}
        /\ At(Later, "open") > At(Earlier, "dump") => cacheFile = procs.of[Later].content
        /\ (Holds(1) /\ Holds(2)) <=> At(Later, "load") > At(Earlier, "dump")

C30_Witness ==
    /\ BothWrote
    /\ At(1, "load") < At(2, "load")
    /\ At(2, "load") < At(1, "dump")
    /\ At(1, "dump") < At(2, "dump")
    /\ Holds(2)
    /\ ~Holds(1)

====
